---- MODULE Spec2Model ----
(***************************************************************************)
(* Model of the memory-system orchestration layer of DRAMsim3              *)
(* (src/src/dram_system.cc): BaseDRAMSystem, JedecDRAMSystem (the          *)
(* timing-accurate model) and IdealDRAMSystem (the fixed-latency model).   *)
(*                                                                         *)
(* One memory system instance is modelled.  Init is the state right after  *)
(* its constructor returned; kind says which concrete class was built.     *)
(* Further specifications cover the process-wide channel tally under       *)
(* concurrent construction (SpecTally), the address decoder over a range   *)
(* of layouts (SpecDecoder), construction and teardown (SpecLife) and the  *)
(* parallel loop of JedecDRAMSystem::ClockTick (SpecPar).                  *)
(* The per-channel Controller, Transaction, Config and ModuloWidth are    *)
(* defined outside dram_system.cc; what is needed of them is modelled from *)
(* the specification's description of their interface (Ctrl*, Configs,     *)
(* Transaction, ModuloWidth).                                              *)
(***************************************************************************)
EXTENDS Integers, Sequences, FiniteSets, TLC

VARIABLES
    kind,                \* "Ideal" or "Jedec": the concrete class constructed
    ndebug,              \* TRUE when the build defines NDEBUG (assert compiled out)
    config_,             \* the Config the instance references (immutable)
    clk_,                \* BaseDRAMSystem::clk_
    read_callback_,      \* BaseDRAMSystem::read_callback_
    write_callback_,     \* BaseDRAMSystem::write_callback_
    infinite_buffer_q_,  \* IdealDRAMSystem::infinite_buffer_q_
    ctrls_,              \* JedecDRAMSystem::ctrls_
    aborted,             \* the process was aborted (failed assert)
    lastOp,              \* history: name of the operation of the last step
    lastArgs,            \* history: its arguments
    ret,                 \* history: its return value, as text
    submitted,           \* history: every transaction admitted, in order
    completed,           \* history: every callback invocation, in order
    ticks,               \* history: number of ClockTick calls made
    total_channels_,     \* static BaseDRAMSystem::total_channels_
    ctors,               \* constructors running in other threads of the process
    files,               \* state of the four report sinks (std::ofstream members)
    phase,               \* "unbuilt", "built", "destroyed" or "exited"
    par                  \* the parallel loop of JedecDRAMSystem::ClockTick

vars == <<kind, ndebug, config_, clk_, read_callback_, write_callback_,
          infinite_buffer_q_, ctrls_, aborted, lastOp, lastArgs, ret,
          submitted, completed, ticks, total_channels_, ctors, files, phase,
          par>>

\* the variables only construction, teardown and the parallel loop change
auxvars == <<total_channels_, ctors, files, phase, par>>

----------------------------------------------------------------------------
(* Bounds of the model *)

\* number of transactions admitted in one run
MaxTrans == 3
\* submissions happen while clk_ <= MaxSubmitClk
MaxSubmitClk == 1
\* ideal_memory_latency ranges over 1..MaxLatency
MaxLatency == 2
\* epoch_period ranges over 1..MaxPeriod
MaxPeriod == 2

\* ClockTick is called while clk_ < MaxClk; large enough for every admitted
\* transaction of the ideal model to be examined after it became due
MaxClk == MaxSubmitClk + MaxLatency + MaxTrans

\* ClockTick of the timing-accurate model is called while clk_ < JedecMaxClk;
\* large enough for the clock to pass two multiples of a period
JedecMaxClk == MaxPeriod + 2

\* addresses the driver submits
Addrs == {0, 1}

NoChannel == 0 - 1

----------------------------------------------------------------------------
(* Config, Transaction, callbacks *)

\* Configurations: channels = 2^ch_width; the channel field is the lowest
\* bit of the address (shift_bits = 0, ch_pos = 0, ch_width = 1).
Configs(k) ==
    { [channels |-> 2, shift_bits |-> 0, ch_width |-> 1, ch_pos |-> 0,
       trans_queue_size |-> 1, output_level |-> 0, is_hmc |-> FALSE,
       epoch_period |-> p, ideal_memory_latency |-> l] :
         p \in (IF k = "Jedec" THEN 1..MaxPeriod ELSE {1}),
         l \in (IF k = "Ideal" THEN 1..MaxLatency ELSE {1}) }

\* A completion callback is identified by its direction and by the
\* registration that supplied it (0: the constructor's arguments).
Callback(dir, reg) == [dir |-> dir, reg |-> reg]

Pow2(n) == 2 ^ n

\* common.cc ModuloWidth: the bit_width-wide field of addr at bit pos
ModuloWidth(addr, bit_width, pos) == (addr \div Pow2(pos)) % Pow2(bit_width)

\* BaseDRAMSystem::GetChannel
GetChannel_NoMask(cfg, hex_addr) ==
    (hex_addr \div Pow2(cfg.shift_bits)) \div Pow2(cfg.ch_pos)

GetChannel_NoShift(cfg, hex_addr) ==
    ModuloWidth(hex_addr, cfg.ch_width, cfg.ch_pos)

GetChannel(cfg, hex_addr) ==
    ModuloWidth(hex_addr \div Pow2(cfg.shift_bits), cfg.ch_width, cfg.ch_pos)

\* Transaction(hex_addr, is_write): added_cycle is 0 until stamped.
\* id is history: the serial number of the submission.
Transaction(hex_addr, is_write, id) ==
    [addr |-> hex_addr, is_write |-> is_write, added_cycle |-> 0, id |-> id]

BoolText(b) == IF b THEN "true" ELSE "false"

----------------------------------------------------------------------------
(* IdealDRAMSystem *)

\* AddTransaction, lines 163-164: the transaction stamped with the clock
StampedIdeal_Zero(hex_addr, is_write, clk, id) ==
    Transaction(hex_addr, is_write, id)

StampedIdeal(hex_addr, is_write, clk, id) ==
    [Transaction(hex_addr, is_write, id) EXCEPT !.added_cycle = clk]

\* ClockTick, line 172: clk_ - added_cycle >= latency_ (unsigned; added_cycle
\* never exceeds clk_, so the difference does not wrap)
Due_Early(clk, trans, latency) == clk + 1 - trans.added_cycle >= latency

Due_Exact(clk, trans, latency) == clk - trans.added_cycle = latency

Due(clk, trans, latency) == clk - trans.added_cycle >= latency

\* ClockTick, lines 173-177: the callback chosen by the stored direction
CallbackFor_Read(trans, rcb, wcb) == rcb

CallbackFor(trans, rcb, wcb) == IF trans.is_write THEN wcb ELSE rcb

\* one callback invocation: cb(addr); id and at (the clock during the
\* call) are history
Invocation(cb, trans, clk) ==
    [cb |-> cb, addr |-> trans.addr, id |-> trans.id, at |-> clk]

\* vector::erase at position i: the elements after i move down by one and
\* the returned iterator is again at position i
EraseAt_Keep(q, i) == q

EraseAt(q, i) == SubSeq(q, 1, i - 1) \o SubSeq(q, i + 1, Len(q))

\* ClockTick, lines 180-182: if (trans_it != end()) ++trans_it
Advance(q, i) == IF i <= Len(q) THEN i + 1 ELSE i

\* ClockTick, lines 170-183: the scan of the pending collection, from
\* iterator position i.  Result: the collection left and the callback
\* invocations made, in order.
RECURSIVE IdealScan(_, _, _, _, _, _, _)
IdealScan(q, i, clk, latency, rcb, wcb, fired) ==
    IF i > Len(q)
    THEN [q |-> q, fired |-> fired]
    ELSE IF Due(clk, q[i], latency)
         THEN LET call == Invocation(CallbackFor(q[i], rcb, wcb), q[i], clk)
                  erased == EraseAt(q, i)
              IN IdealScan(erased, Advance(erased, i), clk, latency, rcb, wcb,
                           Append(fired, call))
         ELSE IdealScan(q, Advance(q, i), clk, latency, rcb, wcb, fired)

\* the clock increment, lines 131 and 185
NextClk_Stuck(clk) == clk

NextClk(clk) == clk + 1

\* IdealDRAMSystem::AddTransaction
IdealAddTransaction(hex_addr, is_write) ==
    /\ kind = "Ideal"
    /\ ~aborted
    /\ Len(submitted) < MaxTrans
    /\ clk_ <= MaxSubmitClk
    /\ LET trans == StampedIdeal(hex_addr, is_write, clk_, Len(submitted) + 1)
       IN /\ infinite_buffer_q_' = Append(infinite_buffer_q_, trans)
          /\ submitted' = Append(submitted, [trans |-> trans, ch |-> NoChannel])
    /\ ret' = BoolText(TRUE)
    /\ lastOp' = "AddTransaction"
    /\ lastArgs' = <<hex_addr, is_write>>
    /\ UNCHANGED auxvars
    /\ UNCHANGED <<kind, ndebug, config_, clk_, read_callback_,
                   write_callback_, ctrls_, aborted, completed, ticks>>

\* IdealDRAMSystem::ClockTick
IdealClockTick ==
    /\ kind = "Ideal"
    /\ ~aborted
    /\ clk_ < MaxClk
    /\ LET r == IdealScan(infinite_buffer_q_, 1, clk_,
                          config_.ideal_memory_latency,
                          read_callback_, write_callback_, <<>>)
       IN /\ infinite_buffer_q_' = r.q
          /\ completed' = completed \o r.fired
    /\ clk_' = NextClk(clk_)
    /\ ticks' = ticks + 1
    /\ ret' = "void"
    /\ lastOp' = "ClockTick"
    /\ lastArgs' = <<>>
    /\ UNCHANGED auxvars
    /\ UNCHANGED <<kind, ndebug, config_, read_callback_, write_callback_,
                   ctrls_, aborted, submitted>>

----------------------------------------------------------------------------
(* Controller: one per channel, owned by JedecDRAMSystem.  Its transaction *)
(* queue has room for trans_queue_size entries; a tick may complete the    *)
(* oldest queued transaction (when, is the controller's timing model).     *)

\* new Controller(i, config_, timing_, read_callback_, write_callback_)
Controller(i, cfg, rcb, wcb) ==
    [channel_id |-> i, queue |-> <<>>, clk |-> 0, epoch_rows |-> 0,
     final_stats |-> FALSE, read_callback |-> rcb, write_callback |-> wcb]

\* Controller::WillAcceptTransaction
CtrlWillAccept(c, cfg, hex_addr, is_write) ==
    Len(c.queue) < cfg.trans_queue_size

\* Controller::AddTransaction
CtrlAddTransaction(c, trans) == [c EXCEPT !.queue = Append(@, trans)]

\* Controller::ClockTick: the callbacks it invokes in this tick, each
\* cb(addr); id is history
CtrlCompletions(c, issue) ==
    IF issue /\ Len(c.queue) > 0
    THEN LET trans == Head(c.queue)
         IN <<[cb |-> CallbackFor(trans, c.read_callback, c.write_callback),
               addr |-> trans.addr, id |-> trans.id]>>
    ELSE <<>>

\* Controller::ClockTick: the controller after this tick
CtrlClockTick(c, issue) ==
    [c EXCEPT !.queue = IF issue /\ Len(@) > 0 THEN Tail(@) ELSE @,
              !.clk = @ + 1]

\* Controller::PrintEpochStats: one row appended to the epoch sink
CtrlPrintEpochStats(c) == [c EXCEPT !.epoch_rows = @ + 1]

\* Controller::PrintFinalStats: the final statistics are in the sinks
CtrlPrintFinalStats(c) == [c EXCEPT !.final_stats = TRUE]

----------------------------------------------------------------------------
(* JedecDRAMSystem *)

Channels(ctrls) == DOMAIN ctrls

\* WillAcceptTransaction, lines 101-102
JedecWillAccept_Ch0(ctrls, cfg, hex_addr, is_write) ==
    CtrlWillAccept(ctrls[0], cfg, hex_addr, is_write)

JedecWillAccept(ctrls, cfg, hex_addr, is_write) ==
    CtrlWillAccept(ctrls[GetChannel(cfg, hex_addr)], cfg, hex_addr, is_write)

\* AddTransaction, lines 113-114: ok
AdmitOk(ctrls, cfg, hex_addr, is_write) ==
    CtrlWillAccept(ctrls[GetChannel(cfg, hex_addr)], cfg, hex_addr, is_write)

\* AddTransaction, line 116: assert(ok) aborts unless NDEBUG is defined
AssertFails_Never(nd, ok) == FALSE

AssertFails(nd, ok) == ~nd /\ ~ok

\* ClockTick, line 133: clk_ % epoch_period == 0, on the incremented clock
EpochDue_Off(clk, period) == clk % period = 1 % period

EpochDue(clk, period) == clk % period = 0

\* the invocations of all controllers in one tick, in channel order
RECURSIVE AllCompletions(_, _, _)
AllCompletions(ctrls, issue, i) ==
    IF i \notin DOMAIN ctrls
    THEN <<>>
    ELSE CtrlCompletions(ctrls[i], issue[i])
           \o AllCompletions(ctrls, issue, i + 1)

\* JedecDRAMSystem::WillAcceptTransaction
JedecWillAcceptTransaction(hex_addr, is_write) ==
    /\ kind = "Jedec"
    /\ ~aborted
    /\ ret' = BoolText(JedecWillAccept(ctrls_, config_, hex_addr, is_write))
    /\ lastOp' = "WillAcceptTransaction"
    /\ lastArgs' = <<hex_addr, is_write>>
    /\ UNCHANGED auxvars
    /\ UNCHANGED <<kind, ndebug, config_, clk_, read_callback_,
                   write_callback_, infinite_buffer_q_, ctrls_, aborted,
                   submitted, completed, ticks>>

\* JedecDRAMSystem::AddTransaction
JedecAddTransaction(hex_addr, is_write) ==
    /\ kind = "Jedec"
    /\ ~aborted
    /\ Len(submitted) < MaxTrans
    /\ clk_ <= MaxSubmitClk
    /\ LET channel == GetChannel(config_, hex_addr)
           ok == AdmitOk(ctrls_, config_, hex_addr, is_write)
           trans == Transaction(hex_addr, is_write, Len(submitted) + 1)
       IN IF AssertFails(ndebug, ok)
          THEN /\ aborted' = TRUE
               /\ ret' = "none"
               /\ UNCHANGED <<ctrls_, submitted>>
          ELSE /\ aborted' = aborted
               /\ ret' = BoolText(ok)
               /\ IF ok
                  THEN /\ ctrls_' = [ctrls_ EXCEPT
                                       ![channel] = CtrlAddTransaction(@, trans)]
                       /\ submitted' = Append(submitted,
                                           [trans |-> trans, ch |-> channel])
                  ELSE UNCHANGED <<ctrls_, submitted>>
    /\ lastOp' = "AddTransaction"
    /\ lastArgs' = <<hex_addr, is_write>>
    /\ UNCHANGED auxvars
    /\ UNCHANGED <<kind, ndebug, config_, clk_, read_callback_,
                   write_callback_, infinite_buffer_q_, completed, ticks>>

\* JedecDRAMSystem::ClockTick.  issue[i]: whether controller i completes its
\* oldest transaction in this tick.
JedecClockTick ==
    /\ kind = "Jedec"
    /\ ~aborted
    /\ clk_ < JedecMaxClk
    /\ \E issue \in [Channels(ctrls_) -> BOOLEAN] :
         LET ticked == [i \in Channels(ctrls_) |->
                          CtrlClockTick(ctrls_[i], issue[i])]
             clk == NextClk(clk_)
         IN /\ completed' = completed \o AllCompletions(ctrls_, issue, 0)
            /\ clk_' = clk
            /\ ctrls_' = IF EpochDue(clk, config_.epoch_period)
                         THEN [i \in Channels(ctrls_) |->
                                 CtrlPrintEpochStats(ticked[i])]
                         ELSE ticked
    /\ ticks' = ticks + 1
    /\ ret' = "void"
    /\ lastOp' = "ClockTick"
    /\ lastArgs' = <<>>
    /\ UNCHANGED auxvars
    /\ UNCHANGED <<kind, ndebug, config_, read_callback_, write_callback_,
                   infinite_buffer_q_, aborted, submitted>>

\* JedecDRAMSystem::PrintStats
JedecPrintStats ==
    /\ kind = "Jedec"
    /\ ~aborted
    /\ ctrls_' = [i \in Channels(ctrls_) |-> CtrlPrintFinalStats(ctrls_[i])]
    /\ ret' = "void"
    /\ lastOp' = "PrintStats"
    /\ lastArgs' = <<>>
    /\ UNCHANGED auxvars
    /\ UNCHANGED <<kind, ndebug, config_, clk_, read_callback_,
                   write_callback_, infinite_buffer_q_, aborted, submitted,
                   completed, ticks>>

----------------------------------------------------------------------------
(* BaseDRAMSystem *)

\* the report sinks: std::ofstream members of BaseDRAMSystem
Sinks == {"stats_txt_file_", "stats_csv_file_", "epoch_csv_file_",
          "histo_csv_file_"}

\* constructor, lines 30-41: the least output_level at which sink f is opened
OpensAt(f) ==
    IF f \in {"stats_txt_file_", "stats_csv_file_"} THEN 0
    ELSE IF f = "epoch_csv_file_" THEN 1
    ELSE 2

\* constructor, lines 30-41: the sinks after construction
OpenSinks(output_level) ==
    [f \in Sinks |-> IF output_level >= OpensAt(f) THEN "open" ELSE "unopened"]

\* the parallel loop of ClockTick is not running
ParIdle == [pc |-> "idle", todo |-> {}, running |-> {}, issue |-> <<>>,
            before |-> <<>>]

\* callbacks the driver re-registers
Registrations == {1}

\* BaseDRAMSystem::RegisterCallbacks
RegisterCallbacks_Propagated(reg) ==
    /\ ~aborted
    /\ read_callback_' = Callback("read", reg)
    /\ write_callback_' = Callback("write", reg)
    /\ ctrls_' = [i \in DOMAIN ctrls_ |->
                    [ctrls_[i] EXCEPT !.read_callback = read_callback_',
                                      !.write_callback = write_callback_']]
    /\ ret' = "void"
    /\ lastOp' = "RegisterCallbacks"
    /\ lastArgs' = <<reg>>
    /\ UNCHANGED auxvars
    /\ UNCHANGED <<kind, ndebug, config_, clk_, infinite_buffer_q_,
                   aborted, submitted, completed, ticks>>

RegisterCallbacks(reg) ==
    /\ ~aborted
    /\ read_callback_' = Callback("read", reg)
    /\ write_callback_' = Callback("write", reg)
    /\ ret' = "void"
    /\ lastOp' = "RegisterCallbacks"
    /\ lastArgs' = <<reg>>
    /\ UNCHANGED auxvars
    /\ UNCHANGED <<kind, ndebug, config_, clk_, infinite_buffer_q_, ctrls_,
                   aborted, submitted, completed, ticks>>

\* BaseDRAMSystem::GetChannel, called by the driver
GetChannelCall(hex_addr) ==
    /\ ~aborted
    /\ ret' = ToString(GetChannel(config_, hex_addr))
    /\ lastOp' = "GetChannel"
    /\ lastArgs' = <<hex_addr>>
    /\ UNCHANGED auxvars
    /\ UNCHANGED <<kind, ndebug, config_, clk_, read_callback_,
                   write_callback_, infinite_buffer_q_, ctrls_, aborted,
                   submitted, completed, ticks>>

----------------------------------------------------------------------------
(* The state after construction, and the driver's calls *)

\* BaseDRAMSystem::BaseDRAMSystem, then JedecDRAMSystem::JedecDRAMSystem or
\* IdealDRAMSystem::IdealDRAMSystem.  NDEBUG only matters to the assert of
\* JedecDRAMSystem::AddTransaction.
Init ==
    /\ kind \in {"Ideal", "Jedec"}
    /\ ndebug \in (IF kind = "Jedec" THEN BOOLEAN ELSE {FALSE})
    /\ config_ \in Configs(kind)
    /\ clk_ = 0
    /\ read_callback_ = Callback("read", 0)
    /\ write_callback_ = Callback("write", 0)
    /\ infinite_buffer_q_ = <<>>
    /\ ctrls_ = IF kind = "Jedec"
                THEN [i \in 0..(config_.channels - 1) |->
                        Controller(i, config_, read_callback_, write_callback_)]
                ELSE <<>>
    /\ aborted = FALSE
    /\ lastOp = "construct"
    /\ lastArgs = <<>>
    /\ ret = "none"
    /\ submitted = <<>>
    /\ completed = <<>>
    /\ ticks = 0
    /\ total_channels_ = config_.channels
    /\ ctors = <<>>
    /\ files = OpenSinks(config_.output_level)
    /\ phase = "built"
    /\ par = ParIdle

InitIdeal == Init /\ kind = "Ideal"

InitJedec == Init /\ kind = "Jedec"

\* the calls a driver makes on an IdealDRAMSystem
NextIdeal ==
    \/ \E a \in Addrs, w \in BOOLEAN : IdealAddTransaction(a, w)
    \/ IdealClockTick
    \/ \E reg \in Registrations : RegisterCallbacks(reg)
    \/ \E a \in Addrs : GetChannelCall(a)

\* the calls a driver makes on a JedecDRAMSystem
NextJedec ==
    \/ \E a \in Addrs, w \in BOOLEAN : JedecWillAcceptTransaction(a, w)
    \/ \E a \in Addrs, w \in BOOLEAN : JedecAddTransaction(a, w)
    \/ JedecClockTick
    \/ JedecPrintStats
    \/ \E reg \in Registrations : RegisterCallbacks(reg)
    \/ \E a \in Addrs : GetChannelCall(a)

Next ==
    \/ \E a \in Addrs, w \in BOOLEAN : IdealAddTransaction(a, w)
    \/ IdealClockTick
    \/ \E a \in Addrs, w \in BOOLEAN : JedecWillAcceptTransaction(a, w)
    \/ \E a \in Addrs, w \in BOOLEAN : JedecAddTransaction(a, w)
    \/ JedecClockTick
    \/ JedecPrintStats
    \/ \E reg \in Registrations : RegisterCallbacks(reg)
    \/ \E a \in Addrs : GetChannelCall(a)

\* either model
Spec == Init /\ [][Next]_vars

\* the ideal model alone
SpecIdeal == InitIdeal /\ [][NextIdeal]_vars

\* the ideal model, with a driver that keeps calling ClockTick
FairSpecIdeal == SpecIdeal /\ WF_vars(IdealClockTick)

\* the timing-accurate model alone
SpecJedec == InitJedec /\ [][NextJedec]_vars

----------------------------------------------------------------------------
(* Properties of the ideal model *)

Latency == config_.ideal_memory_latency

\* the admitted transaction with serial number id
Admitted(id) == submitted[id].trans

PendingIds == {infinite_buffer_q_[i].id : i \in 1..Len(infinite_buffer_q_)}

CompletedIds == {completed[k].id : k \in 1..Len(completed)}

\* the clock during the callback of transaction id (which has completed)
CompletedAt(id) ==
    completed[CHOOSE k \in 1..Len(completed) : completed[k].id = id].at

\* C1: latency law.  A transaction admitted at clock T is called back
\* during the ClockTick that starts with clk_ = T + latency_ and at no other
\* tick: every callback made so far was made at T + latency_, and no
\* pending transaction has already missed the tick T + latency_.
C1_LatencyLaw ==
    /\ \A k \in 1..Len(completed) :
         completed[k].at = Admitted(completed[k].id).added_cycle + Latency
    /\ \A i \in 1..Len(infinite_buffer_q_) :
         clk_ <= infinite_buffer_q_[i].added_cycle + Latency

\* C2: completion order.  If Y was submitted after X and Y's callback has
\* fired, then X's callback has fired too, at the same or an earlier tick.
C2_CompletionOrder ==
    \A x \in 1..Len(submitted), y \in 1..Len(submitted) :
        (x < y /\ y \in CompletedIds)
            => (x \in CompletedIds /\ CompletedAt(x) <= CompletedAt(y))

\* the entries of q that are younger than the latency at clock clk
Young(q, clk, latency) ==
    SelectSeq(q, LAMBDA t : clk - t.added_cycle < latency)

\* C3: no early completion.  No callback is made for a transaction admitted
\* at T during a ClockTick that starts with clk_ < T + latency_, and a
\* ClockTick leaves the pending transactions younger than latency_ in the
\* collection, unchanged and in order.
C3_NoEarlyCompletion ==
    /\ [](\A k \in 1..Len(completed) :
            completed[k].at >= Admitted(completed[k].id).added_cycle + Latency)
    /\ [][lastOp' = "ClockTick"
            => Young(infinite_buffer_q_', clk_, Latency)
                 = Young(infinite_buffer_q_, clk_, Latency)]_vars

\* C3 witness: a ClockTick has just called back one transaction and kept a
\* younger one pending.
C3_Witness ==
    /\ lastOp = "ClockTick"
    /\ Len(completed) > 0
    /\ completed[Len(completed)].at = clk_ - 1
    /\ \E i \in 1..Len(infinite_buffer_q_) :
         (clk_ - 1) - infinite_buffer_q_[i].added_cycle < Latency

\* C4: at-most-once matching completion.  No transaction is called back
\* twice; each callback is the write callback for a write and the read
\* callback for a read and carries the transaction's address; a transaction
\* is pending or called back, never both and never neither; so submissions
\* = pending entries + callbacks made.
C4_AtMostOnceMatching ==
    /\ \A j \in 1..Len(completed), k \in 1..Len(completed) :
         completed[j].id = completed[k].id => j = k
    /\ \A k \in 1..Len(completed) :
         /\ completed[k].id \in 1..Len(submitted)
         /\ completed[k].addr = Admitted(completed[k].id).addr
         /\ completed[k].cb.dir =
              (IF Admitted(completed[k].id).is_write THEN "write" ELSE "read")
    /\ \A i \in 1..Len(infinite_buffer_q_) :
         infinite_buffer_q_[i] = Admitted(infinite_buffer_q_[i].id)
    /\ PendingIds \cap CompletedIds = {}
    /\ PendingIds \cup CompletedIds = 1..Len(submitted)
    /\ Len(submitted) = Len(infinite_buffer_q_) + Len(completed)

\* C4 witness: a read and a write have been called back and a third
\* transaction is pending.
C4_Witness ==
    /\ \E k \in 1..Len(completed) : completed[k].cb.dir = "write"
    /\ \E k \in 1..Len(completed) : completed[k].cb.dir = "read"
    /\ Len(infinite_buffer_q_) > 0

\* C5: eventual completion.  With a driver that keeps calling ClockTick,
\* every admitted transaction is eventually called back and leaves the
\* pending collection.
C5_EventualCompletion ==
    \A id \in 1..MaxTrans :
        (id <= Len(submitted)) ~> (id \in CompletedIds /\ id \notin PendingIds)

\* C5 witness: a transaction was called back although an earlier ClockTick
\* passed over it when it was due.
C5_Witness ==
    \E k \in 1..Len(completed) :
        completed[k].at > Admitted(completed[k].id).added_cycle + Latency

\* C6: unconditional admission.  AddTransaction returns true, appends
\* exactly the transaction (address, is_write, added_cycle = clk_), leaves
\* the entries already pending as they are and does not change the clock.
C6_UnconditionalAdmission ==
    [][lastOp' = "AddTransaction"
         => /\ ret' = "true"
            /\ Len(infinite_buffer_q_') = Len(infinite_buffer_q_) + 1
            /\ SubSeq(infinite_buffer_q_', 1, Len(infinite_buffer_q_))
                 = infinite_buffer_q_
            /\ LET new == infinite_buffer_q_'[Len(infinite_buffer_q_')]
               IN /\ new.addr = lastArgs'[1]
                  /\ new.is_write = lastArgs'[2]
                  /\ new.added_cycle = clk_
            /\ clk_' = clk_]_vars

\* C6 witness: a transaction was admitted, at a clock other than 0, while
\* others were pending.
C6_Witness ==
    /\ lastOp = "AddTransaction"
    /\ ret = "true"
    /\ clk_ > 0
    /\ Len(infinite_buffer_q_) >= 2

----------------------------------------------------------------------------
(* Properties of the clock and of the timing-accurate model *)

\* C7: simulated clock.  The clock starts at 0, a ClockTick call of either
\* model adds exactly 1 to it and no other call changes it, so it always
\* equals the number of ClockTick calls made.
C7_SimulatedClock ==
    /\ [](clk_ = ticks)
    /\ [][/\ lastOp' = "ClockTick" => clk_' = clk_ + 1
          /\ lastOp' # "ClockTick" => clk_' = clk_]_vars

\* C7 witness: after two ticks and an admitted transaction, a call other
\* than ClockTick has returned.
C7_Witness ==
    /\ clk_ >= 2
    /\ Len(submitted) > 0
    /\ lastOp \in {"RegisterCallbacks", "GetChannel", "PrintStats",
                   "WillAcceptTransaction", "AddTransaction"}

\* the controller of the channel of the last call's address has no room
\* for it (evaluated on the state before the call)
NoCapacity(args) ==
    ~CtrlWillAccept(ctrls_[GetChannel(config_, args[1])], config_,
                    args[1], args[2])

WouldAccept(a, w) == JedecWillAccept(ctrls_, config_, a, w)

\* C9: check then submit.  WillAcceptTransaction changes nothing, and the
\* answer it gave stays the answer until the next AddTransaction or
\* ClockTick; AddTransaction(A, w) called while that answer is true returns
\* true and appends one transaction (A, w) to the queue of controller
\* GetChannel(A), every other controller being left as it is; and all
\* transactions of one address are handed to the same controller, where
\* they are queued.
C9_CheckThenSubmit ==
    /\ [][lastOp' = "WillAcceptTransaction"
            => /\ ret' = BoolText(WouldAccept(lastArgs'[1], lastArgs'[2]))
               /\ ctrls_' = ctrls_]_vars
    /\ [][lastOp' \notin {"AddTransaction", "ClockTick"}
            => \A a \in Addrs, w \in BOOLEAN :
                 WouldAccept(a, w)' = WouldAccept(a, w)]_vars
    /\ [][(lastOp' = "AddTransaction"
             /\ WouldAccept(lastArgs'[1], lastArgs'[2]))
            => LET ch == GetChannel(config_, lastArgs'[1])
                   new == ctrls_'[ch].queue[Len(ctrls_'[ch].queue)]
               IN /\ ret' = "true"
                  /\ ~aborted'
                  /\ Len(ctrls_'[ch].queue) = Len(ctrls_[ch].queue) + 1
                  /\ SubSeq(ctrls_'[ch].queue, 1, Len(ctrls_[ch].queue))
                       = ctrls_[ch].queue
                  /\ new.addr = lastArgs'[1]
                  /\ new.is_write = lastArgs'[2]
                  /\ \A i \in Channels(ctrls_) \ {ch} : ctrls_'[i] = ctrls_[i]
                  /\ Len(submitted') = Len(submitted) + 1]_vars
    /\ [](/\ \A x \in 1..Len(submitted), y \in 1..Len(submitted) :
               Admitted(x).addr = Admitted(y).addr
                   => submitted[x].ch = submitted[y].ch
          /\ \A i \in Channels(ctrls_) :
               \A k \in 1..Len(ctrls_[i].queue) :
                   submitted[ctrls_[i].queue[k].id].ch = i)

\* C9 witness: a transaction was admitted for an address that had been
\* admitted before, while the other controller holds a transaction.
C9_Witness ==
    /\ lastOp = "AddTransaction"
    /\ ret = "true"
    /\ \E x \in 1..Len(submitted) :
         x < Len(submitted) /\ Admitted(x).addr = lastArgs[1]
    /\ \A i \in Channels(ctrls_) : Len(ctrls_[i].queue) > 0

\* C10: report cadence.  A ClockTick asks every controller for one epoch
\* row exactly when the incremented clock is a multiple of epoch_period and
\* no other call asks for one; after n ClockTick calls every controller has
\* been asked for n div epoch_period rows.
C10_ReportCadence ==
    /\ [](\A i \in Channels(ctrls_) :
            ctrls_[i].epoch_rows = ticks \div config_.epoch_period)
    /\ [][\A i \in Channels(ctrls_) :
            ctrls_'[i].epoch_rows =
                IF lastOp' = "ClockTick"
                     /\ (clk_ + 1) % config_.epoch_period = 0
                THEN ctrls_[i].epoch_rows + 1
                ELSE ctrls_[i].epoch_rows]_vars

\* C10 witness: with a period of 2, four ticks have asked a controller for
\* two rows, and a tick in between asked for none.
C10_Witness ==
    /\ config_.epoch_period = 2
    /\ ticks = 4
    /\ \A i \in Channels(ctrls_) : ctrls_[i].epoch_rows = 2

----------------------------------------------------------------------------
(* Callback registration, and progress of the ideal model *)

\* the invocations made by the step
NewCompletions == SubSeq(completed', Len(completed) + 1, Len(completed'))

\* C15: scope of RegisterCallbacks.  RegisterCallbacks stores the two
\* callbacks it is given and changes nothing else; a ClockTick of the ideal
\* model invokes only the callbacks stored at that time, also for
\* transactions admitted before they were registered; the controllers of
\* the timing-accurate model keep invoking the callbacks of the
\* constructor.
C15_RegisterCallbacksScope ==
    /\ [][lastOp' = "RegisterCallbacks"
            => /\ read_callback_' = Callback("read", lastArgs'[1])
               /\ write_callback_' = Callback("write", lastArgs'[1])
               /\ UNCHANGED <<clk_, infinite_buffer_q_, ctrls_, submitted,
                              completed, ticks, aborted, config_>>]_vars
    /\ [][(kind = "Ideal" /\ lastOp' = "ClockTick")
            => \A k \in 1..Len(NewCompletions) :
                 NewCompletions[k].cb \in {read_callback_, write_callback_}]_vars
    /\ [](kind = "Jedec"
            => /\ \A k \in 1..Len(completed) : completed[k].cb.reg = 0
               /\ \A i \in DOMAIN ctrls_ :
                    /\ ctrls_[i].read_callback = Callback("read", 0)
                    /\ ctrls_[i].write_callback = Callback("write", 0))

\* C15 witness: the ideal model has invoked a callback of the constructor
\* and then, for a transaction admitted at clock 0, a re-registered one.
C15_Witness ==
    /\ kind = "Ideal"
    /\ \E j \in 1..Len(completed), k \in 1..Len(completed) :
         /\ j < k
         /\ completed[j].cb.reg = 0
         /\ completed[k].cb.reg = 1
         /\ Admitted(completed[k].id).added_cycle = 0
         /\ completed[j].at > 0

\* the number of entries of q whose age at clock clk has reached latency
DueCount(q, clk, latency) ==
    Cardinality({i \in 1..Len(q) : clk - q[i].added_cycle >= latency})

\* C20: progress of the ideal model.  The pending collection is ordered by
\* non-decreasing added_cycle; a ClockTick that starts with at least one
\* due transaction pending calls back and removes the first (oldest) entry,
\* so fewer of the transactions due at that clock remain pending.
C20_IdealProgress ==
    /\ [](\A i \in 1..Len(infinite_buffer_q_), j \in 1..Len(infinite_buffer_q_) :
            i < j => infinite_buffer_q_[i].added_cycle
                       <= infinite_buffer_q_[j].added_cycle)
    /\ [][(lastOp' = "ClockTick"
             /\ DueCount(infinite_buffer_q_, clk_, Latency) > 0)
            => /\ \E k \in 1..Len(NewCompletions) :
                    NewCompletions[k].id = infinite_buffer_q_[1].id
               /\ \A i \in 1..Len(infinite_buffer_q_') :
                    infinite_buffer_q_'[i].id # infinite_buffer_q_[1].id
               /\ DueCount(infinite_buffer_q_', clk_, Latency)
                    < DueCount(infinite_buffer_q_, clk_, Latency)]_vars

\* C20 witness: a ClockTick has called back the oldest transaction and has
\* left pending one that was due at the same clock.
C20_Witness ==
    /\ lastOp = "ClockTick"
    /\ Len(completed) > 0
    /\ completed[Len(completed)].at = clk_ - 1
    /\ DueCount(infinite_buffer_q_, clk_ - 1, Latency) > 0

----------------------------------------------------------------------------
(* The process-wide channel tally: memory systems constructed by several  *)
(* threads of one process.  total_channels_ is a plain static int, so the  *)
(* += of line 23 is a load followed by a store; constructors running in    *)
(* different threads race on it, and every interleaving of their loads and *)
(* stores is an outcome the build can produce.                             *)

\* number of memory systems the process constructs
MaxSystems == 3

\* config_.channels of the systems constructed
ChannelCounts == {1, 2}

Threads == 1..MaxSystems

\* a constructor that has not reached line 23
CtorAt(pc, channels, loaded) ==
    [pc |-> pc, channels |-> channels, loaded |-> loaded]

\* line 23, total_channels_ += config_.channels: the value stored
TallySum(loaded, channels) == loaded + channels

\* line 23, first half: the thread reads total_channels_
CtorLoad(t) ==
    /\ ctors[t].pc = "start"
    /\ ctors' = [ctors EXCEPT ![t] = CtorAt("loaded", @.channels,
                                            total_channels_)]
    /\ UNCHANGED total_channels_
    /\ UNCHANGED <<files, phase, par>>
    /\ UNCHANGED <<kind, ndebug, config_, clk_, read_callback_,
                   write_callback_, infinite_buffer_q_, ctrls_, aborted,
                   lastOp, lastArgs, ret, submitted, completed, ticks>>

\* line 23, second half: the thread writes the sum back; the rest of the
\* constructor does not touch the tally
CtorStore(t) ==
    /\ ctors[t].pc = "loaded"
    /\ total_channels_' = TallySum(ctors[t].loaded, ctors[t].channels)
    /\ ctors' = [ctors EXCEPT ![t] = CtorAt("built", @.channels, @.loaded)]
    /\ UNCHANGED <<files, phase, par>>
    /\ UNCHANGED <<kind, ndebug, config_, clk_, read_callback_,
                   write_callback_, infinite_buffer_q_, ctrls_, aborted,
                   lastOp, lastArgs, ret, submitted, completed, ticks>>

\* ~BaseDRAMSystem, lines 49-56: the tally is left alone
CtorTeardown(t) ==
    /\ ctors[t].pc = "built"
    /\ ctors' = [ctors EXCEPT ![t] = CtorAt("destroyed", @.channels, @.loaded)]
    /\ UNCHANGED total_channels_
    /\ UNCHANGED <<files, phase, par>>
    /\ UNCHANGED <<kind, ndebug, config_, clk_, read_callback_,
                   write_callback_, infinite_buffer_q_, ctrls_, aborted,
                   lastOp, lastArgs, ret, submitted, completed, ticks>>

\* line 9: the tally is 0 before any instance exists; each thread is about
\* to construct one system
InitTally ==
    /\ total_channels_ = 0
    /\ ctors \in [Threads -> {CtorAt("start", c, 0) : c \in ChannelCounts}]
    /\ files = [f \in Sinks |-> "unopened"]
    /\ phase = "unbuilt"
    /\ par = ParIdle
    /\ kind = "Ideal"
    /\ ndebug = FALSE
    /\ config_ = CHOOSE cfg \in Configs("Ideal") : cfg.ideal_memory_latency = 1
    /\ clk_ = 0
    /\ read_callback_ = Callback("read", 0)
    /\ write_callback_ = Callback("write", 0)
    /\ infinite_buffer_q_ = <<>>
    /\ ctrls_ = <<>>
    /\ aborted = FALSE
    /\ lastOp = "none"
    /\ lastArgs = <<>>
    /\ ret = "none"
    /\ submitted = <<>>
    /\ completed = <<>>
    /\ ticks = 0

NextTally ==
    \/ \E t \in Threads : CtorLoad(t)
    \/ \E t \in Threads : CtorStore(t)
    \/ \E t \in Threads : CtorTeardown(t)

\* several threads constructing and tearing down memory systems
SpecTally == InitTally /\ [][NextTally]_vars

RECURSIVE SumChannels(_, _)
SumChannels(cs, t) ==
    IF t \notin DOMAIN cs THEN 0 ELSE cs[t].channels + SumChannels(cs, t + 1)

\* C11: channel tally.  Once every construction has passed line 23, the
\* tally is the sum of the channel counts of the systems constructed,
\* whatever the interleaving of the constructors; and no step decreases
\* the tally.
C11_TallyIsSum ==
    /\ []((\A t \in Threads : ctors[t].pc \in {"built", "destroyed"})
            => total_channels_ = SumChannels(ctors, 1))
    /\ [][total_channels_' >= total_channels_]_vars

----------------------------------------------------------------------------
(* The address decoder, over a range of address layouts *)

\* config_.channels ranges over 1..MaxChannels
MaxChannels == 4

\* addresses have AddrBits bits
AddrBits == 4

DecoderAddrs == 0..(Pow2(AddrBits) - 1)

\* the field widths a system of c channels can have
Widths(c) == {x \in 0..c : Pow2(x) <= c}

\* Configurations with every layout of shift_bits, ch_pos in 0..1 and every
\* ch_width the channel count has room for: Config derives the field
\* width from the channel count, so that Pow2(ch_width) <= channels.
DecoderConfigs ==
    UNION { { [channels |-> c, shift_bits |-> s, ch_width |-> w, ch_pos |-> p,
               trans_queue_size |-> 1, output_level |-> 0, is_hmc |-> FALSE,
               epoch_period |-> 1, ideal_memory_latency |-> 1] :
                 s \in 0..1, p \in 0..1, w \in Widths(c) } :
            c \in 1..MaxChannels }

\* the state right after the constructor of class k returned for cfg
Built(k, cfg) ==
    /\ kind = k
    /\ config_ = cfg
    /\ clk_ = 0
    /\ read_callback_ = Callback("read", 0)
    /\ write_callback_ = Callback("write", 0)
    /\ infinite_buffer_q_ = <<>>
    /\ ctrls_ = IF k = "Jedec"
                THEN [i \in 0..(cfg.channels - 1) |->
                        Controller(i, cfg, read_callback_, write_callback_)]
                ELSE <<>>
    /\ aborted = FALSE
    /\ lastOp = "construct"
    /\ lastArgs = <<>>
    /\ ret = "none"
    /\ submitted = <<>>
    /\ completed = <<>>
    /\ ticks = 0
    /\ total_channels_ = cfg.channels
    /\ ctors = <<>>
    /\ files = OpenSinks(cfg.output_level)
    /\ phase = "built"
    /\ par = ParIdle

\* a JedecDRAMSystem (NDEBUG build) constructed for one of the layouts
InitDecoder ==
    /\ ndebug = TRUE
    /\ \E cfg \in DecoderConfigs : Built("Jedec", cfg)

\* the driver decodes and checks any address, submits one transaction and
\* advances the clock once, in any order
NextDecoder ==
    \/ \E a \in DecoderAddrs : GetChannelCall(a)
    \/ \E a \in DecoderAddrs : JedecWillAcceptTransaction(a, FALSE)
    \/ \E a \in DecoderAddrs, w \in BOOLEAN :
         Len(submitted) = 0 /\ JedecAddTransaction(a, w)
    \/ ticks = 0 /\ JedecClockTick

SpecDecoder == InitDecoder /\ [][NextDecoder]_vars

Bit(n, k) == (n \div Pow2(k)) % 2

\* the lowest address bit of the channel field
FieldLow(cfg) == cfg.shift_bits + cfg.ch_pos

\* whether address bit k belongs to the channel field
InField(cfg, k) == k >= FieldLow(cfg) /\ k < FieldLow(cfg) + cfg.ch_width

\* the value of the channel field of address a, from its bits
RECURSIVE FieldValue(_, _, _)
FieldValue(cfg, a, j) ==
    IF j >= cfg.ch_width THEN 0
    ELSE Bit(a, FieldLow(cfg) + j) * Pow2(j) + FieldValue(cfg, a, j + 1)

\* a and b have the same bits at the positions ks
SameBits(a, b, ks) == \A k \in ks : Bit(a, k) = Bit(b, k)

\* C13: address decoder partitioning.  Whatever the clock and the pending
\* transactions, GetChannel returns the value of the ch_width-wide field
\* at bit ch_pos of the address shifted right by shift_bits; addresses
\* equal inside the field have the same channel, different addresses equal
\* outside the field have different channels, and with ch_width = 0 every
\* address has channel 0.
C13_ChannelIsField ==
    /\ lastOp = "GetChannel"
         => ret = ToString(FieldValue(config_, lastArgs[1], 0))
    /\ \A a \in DecoderAddrs, b \in DecoderAddrs :
         LET inside == {k \in 0..(AddrBits - 1) : InField(config_, k)}
             outside == {k \in 0..(AddrBits - 1) : ~InField(config_, k)}
         IN /\ SameBits(a, b, inside)
                 => GetChannel(config_, a) = GetChannel(config_, b)
            /\ (a # b /\ SameBits(a, b, outside))
                 => GetChannel(config_, a) # GetChannel(config_, b)
    /\ config_.ch_width = 0
         => \A a \in DecoderAddrs : GetChannel(config_, a) = 0

\* C13 witness: with a one-bit field at address bit 2, after a submission
\* and a clock tick, GetChannel returned 1 for an address whose other bits
\* are all 0.
C13_Witness ==
    /\ lastOp = "GetChannel"
    /\ config_.ch_width = 1
    /\ FieldLow(config_) = 2
    /\ lastArgs[1] = Pow2(2)
    /\ ret = ToString(1)
    /\ clk_ = 1
    /\ Len(submitted) = 1

----------------------------------------------------------------------------
(* Construction and teardown of one memory system *)

\* config_.output_level of the systems constructed
OutputLevels == (0 - 1)..2

\* Configurations of every verbosity tier, with and without the HMC flag
LifeConfigs ==
    { [channels |-> c, shift_bits |-> 0, ch_width |-> c - 1, ch_pos |-> 0,
       trans_queue_size |-> 1, output_level |-> o, is_hmc |-> h,
       epoch_period |-> 1, ideal_memory_latency |-> 1] :
         c \in ChannelCounts, o \in OutputLevels, h \in BOOLEAN }

\* Config::IsHMC
IsHMC(cfg) == cfg.is_hmc

\* JedecDRAMSystem constructor, lines 75-79: the configuration is refused
Rejects_Never(k, cfg) == FALSE

Rejects(k, cfg) == k = "Jedec" /\ IsHMC(cfg)

\* AbruptExit: the process ends; the partly constructed instance is never
\* handed to the caller, and the end of the process releases its files
AbruptExit(fs) == [f \in Sinks |-> IF fs[f] = "open" THEN "closed" ELSE fs[f]]

\* ~BaseDRAMSystem, lines 50-52: the three explicit close() calls
ExplicitClose(fs) ==
    [f \in Sinks |->
       IF f # "histo_csv_file_" /\ fs[f] = "open" THEN "closed" ELSE fs[f]]

\* ~BaseDRAMSystem, line 56: after the body the members are destroyed, and
\* a std::ofstream that is still open closes its file
MemberDestruction_None(fs) == fs

MemberDestruction(fs) ==
    [f \in Sinks |-> IF fs[f] = "open" THEN "closed" ELSE fs[f]]

\* BaseDRAMSystem::BaseDRAMSystem, then JedecDRAMSystem::JedecDRAMSystem or
\* IdealDRAMSystem::IdealDRAMSystem
Construct ==
    /\ phase = "unbuilt"
    /\ clk_' = 0
    /\ total_channels_' = TallySum(total_channels_, config_.channels)
    /\ IF Rejects(kind, config_)
       THEN /\ files' = AbruptExit(OpenSinks(config_.output_level))
            /\ ctrls_' = <<>>
            /\ phase' = "exited"
       ELSE /\ files' = OpenSinks(config_.output_level)
            /\ ctrls_' = IF kind = "Jedec"
                         THEN [i \in 0..(config_.channels - 1) |->
                                 Controller(i, config_, read_callback_,
                                            write_callback_)]
                         ELSE <<>>
            /\ phase' = "built"
    /\ ret' = "none"
    /\ lastOp' = "construct"
    /\ lastArgs' = <<>>
    /\ UNCHANGED <<kind, ndebug, config_, read_callback_, write_callback_,
                   infinite_buffer_q_, aborted, submitted, completed, ticks,
                   ctors, par>>

\* ~JedecDRAMSystem (lines 93-97) or ~IdealDRAMSystem, then ~BaseDRAMSystem
Destroy ==
    /\ phase = "built"
    /\ ~aborted
    /\ ctrls_' = <<>>
    /\ infinite_buffer_q_' = <<>>
    /\ files' = MemberDestruction(ExplicitClose(files))
    /\ phase' = "destroyed"
    /\ ret' = "none"
    /\ lastOp' = "destroy"
    /\ lastArgs' = <<>>
    /\ UNCHANGED <<kind, ndebug, config_, clk_, read_callback_,
                   write_callback_, aborted, submitted, completed, ticks,
                   total_channels_, ctors, par>>

\* before construction: the class, the configuration and the callbacks the
\* constructor will be given
InitLife ==
    /\ phase = "unbuilt"
    /\ kind \in {"Ideal", "Jedec"}
    /\ ndebug = TRUE
    /\ config_ \in LifeConfigs
    /\ clk_ = 0
    /\ read_callback_ = Callback("read", 0)
    /\ write_callback_ = Callback("write", 0)
    /\ infinite_buffer_q_ = <<>>
    /\ ctrls_ = <<>>
    /\ aborted = FALSE
    /\ lastOp = "none"
    /\ lastArgs = <<>>
    /\ ret = "none"
    /\ submitted = <<>>
    /\ completed = <<>>
    /\ ticks = 0
    /\ total_channels_ = 0
    /\ ctors = <<>>
    /\ files = [f \in Sinks |-> "unopened"]
    /\ par = ParIdle

\* the driver constructs the system, uses it while it exists (one
\* submission, clock ticks, final statistics) and tears it down at any time
NextLife ==
    \/ Construct
    \/ \E a \in Addrs :
         phase = "built" /\ Len(submitted) = 0 /\ IdealAddTransaction(a, FALSE)
    \/ phase = "built" /\ IdealClockTick
    \/ \E a \in Addrs :
         phase = "built" /\ Len(submitted) = 0 /\ JedecAddTransaction(a, FALSE)
    \/ phase = "built" /\ JedecClockTick
    \/ phase = "built" /\ JedecPrintStats
    \/ Destroy

SpecLife == InitLife /\ [][NextLife]_vars

\* C14: construction rejection.  Constructing the timing-accurate model
\* for a configuration with the HMC flag ends in the exit of the process
\* with no controller allocated, and nothing happens to the instance
\* afterwards: no transaction is ever admitted and no tick is ever made.
C14_ConstructionRejected ==
    /\ []((phase # "unbuilt" /\ kind = "Jedec" /\ config_.is_hmc)
            => /\ phase = "exited"
               /\ ctrls_ = <<>>
               /\ submitted = <<>>
               /\ ticks = 0)
    /\ [][phase # "exited"]_vars

\* C14 witness: the constructor of the timing-accurate model has run its
\* base-class part (the tally counts the two channels) and has exited.
C14_Witness ==
    /\ phase = "exited"
    /\ kind = "Jedec"
    /\ config_.is_hmc
    /\ total_channels_ = 2
    /\ ctrls_ = <<>>

\* the verbosity tier from which sink f is opened, as specified
Tier(f) ==
    CASE f = "stats_txt_file_" -> 0
      [] f = "stats_csv_file_" -> 0
      [] f = "epoch_csv_file_" -> 1
      [] f = "histo_csv_file_" -> 2

\* C19: report-sink lifecycle.  While the instance exists exactly the sinks
\* of its verbosity tier are open; after teardown every one of them has
\* been closed and none is open, and none is open after the process exited
\* from the constructor.
C19_SinksReleased ==
    /\ phase = "built"
         => \A f \in Sinks :
              files[f] = "open" <=> config_.output_level >= Tier(f)
    /\ phase = "destroyed"
         => \A f \in Sinks :
              /\ files[f] # "open"
              /\ files[f] = "closed" <=> config_.output_level >= Tier(f)
    /\ phase = "exited" => \A f \in Sinks : files[f] # "open"

\* C19 witness: a system of tier 2 was used and torn down; its histogram
\* sink, which the destructor body does not close, is closed.
C19_Witness ==
    /\ phase = "destroyed"
    /\ config_.output_level = 2
    /\ ticks > 0
    /\ \A f \in Sinks : files[f] = "closed"

----------------------------------------------------------------------------
(* JedecDRAMSystem::ClockTick in a build with OpenMP: the iterations of    *)
(* the loop of lines 128-130 are run by worker threads in any order and    *)
(* may overlap; the parallel region ends with a barrier.                   *)

\* line 128: the iterations of the loop, i = 0 .. ctrls_.size() - 1
Iterations_FromOne(ctrls) == DOMAIN ctrls \ {0}

Iterations(ctrls) == DOMAIN ctrls

\* line 129, ctrls_[i]->ClockTick(): only controller i changes
AdvanceOne_Shared(ctrls, i, issue) ==
    [ctrls EXCEPT ![i] = CtrlClockTick(@, issue[i]
                            /\ \A j \in DOMAIN ctrls : ctrls[j].clk <= @.clk)]

AdvanceOne(ctrls, i, issue) ==
    [ctrls EXCEPT ![i] = CtrlClockTick(@, issue[i])]

\* lines 125-130: the barrier that ends the parallel region is passed when
\* every iteration has been started and has finished
BarrierPassed_Open(p) == TRUE

BarrierPassed(p) == p.todo = {} /\ p.running = {}

\* lines 133-136: the epoch report of the incremented clock
EpochReport(ctrls, clk, period) ==
    IF EpochDue(clk, period)
    THEN [i \in Channels(ctrls) |-> CtrlPrintEpochStats(ctrls[i])]
    ELSE ctrls

\* ClockTick is called and enters the parallel region.  issue[i]: whether
\* controller i completes its oldest transaction in this tick.
ParBegin ==
    /\ kind = "Jedec"
    /\ ~aborted
    /\ par.pc = "idle"
    /\ clk_ < JedecMaxClk
    /\ \E issue \in [Channels(ctrls_) -> BOOLEAN] :
         par' = [pc |-> "advancing", todo |-> Iterations(ctrls_),
                 running |-> {}, issue |-> issue,
                 before |-> [ctrls |-> ctrls_, completed |-> completed]]
    /\ UNCHANGED <<total_channels_, ctors, files, phase>>
    /\ UNCHANGED <<kind, ndebug, config_, clk_, read_callback_,
                   write_callback_, infinite_buffer_q_, ctrls_, aborted,
                   lastOp, lastArgs, ret, submitted, completed, ticks>>

\* a worker thread starts iteration i
WorkerStart(i) ==
    /\ par.pc = "advancing"
    /\ i \in par.todo
    /\ par' = [par EXCEPT !.todo = @ \ {i}, !.running = @ \cup {i}]
    /\ UNCHANGED <<total_channels_, ctors, files, phase>>
    /\ UNCHANGED <<kind, ndebug, config_, clk_, read_callback_,
                   write_callback_, infinite_buffer_q_, ctrls_, aborted,
                   lastOp, lastArgs, ret, submitted, completed, ticks>>

\* iteration i ends: controller i has advanced and invoked its callbacks
WorkerFinish(i) ==
    /\ par.pc = "advancing"
    /\ i \in par.running
    /\ ctrls_' = AdvanceOne(ctrls_, i, par.issue)
    /\ completed' = completed \o CtrlCompletions(ctrls_[i], par.issue[i])
    /\ par' = [par EXCEPT !.running = @ \ {i}]
    /\ UNCHANGED <<total_channels_, ctors, files, phase>>
    /\ UNCHANGED <<kind, ndebug, config_, clk_, read_callback_,
                   write_callback_, infinite_buffer_q_, aborted,
                   lastOp, lastArgs, ret, submitted, ticks>>

\* lines 131-141, by the calling thread after the barrier: the clock, the
\* epoch report, return
ParEnd ==
    /\ par.pc = "advancing"
    /\ BarrierPassed(par)
    /\ clk_' = NextClk(clk_)
    /\ ctrls_' = EpochReport(ctrls_, clk_', config_.epoch_period)
    /\ ticks' = ticks + 1
    /\ ret' = "void"
    /\ lastOp' = "ClockTick"
    /\ lastArgs' = <<>>
    /\ par' = ParIdle
    /\ UNCHANGED <<total_channels_, ctors, files, phase>>
    /\ UNCHANGED <<kind, ndebug, config_, read_callback_, write_callback_,
                   infinite_buffer_q_, aborted, submitted, completed>>

\* a JedecDRAMSystem (NDEBUG build) of two channels
InitPar ==
    /\ ndebug = TRUE
    /\ \E cfg \in Configs("Jedec") : Built("Jedec", cfg)

\* the driver is one thread: it makes its next call when ClockTick returned
NextPar ==
    \/ \E a \in Addrs, w \in BOOLEAN :
         par.pc = "idle" /\ JedecAddTransaction(a, w)
    \/ ParBegin
    \/ \E i \in Channels(ctrls_) : WorkerStart(i)
    \/ \E i \in Channels(ctrls_) : WorkerFinish(i)
    \/ ParEnd
    \/ par.pc = "idle" /\ JedecPrintStats

SpecPar == InitPar /\ [][NextPar]_vars

\* the step is the return of ClockTick from the parallel region
TickReturns == par.pc = "advancing" /\ par'.pc = "idle"

\* the epoch rows the controllers have written
EpochRows(ctrls) == [i \in DOMAIN ctrls |-> ctrls[i].epoch_rows]

\* C16: lockstep advancement.  Between ClockTick calls every one of the
\* config_.channels controllers has been ticked exactly clk_ times, and a
\* ClockTick call ticks each of them exactly once.
C16_Lockstep ==
    /\ [](par.pc = "idle"
            => /\ Cardinality(DOMAIN ctrls_) = config_.channels
               /\ \A i \in DOMAIN ctrls_ : ctrls_[i].clk = clk_)
    /\ [][TickReturns
            => \A i \in DOMAIN ctrls_ :
                 ctrls_'[i].clk = par.before.ctrls[i].clk + 1]_vars

\* C16 witness: in the second ClockTick call every controller has been
\* ticked for the second time and the clock is still to be incremented.
C16_Witness ==
    /\ par.pc = "advancing"
    /\ BarrierPassed(par)
    /\ clk_ = 1
    /\ \A i \in DOMAIN ctrls_ : ctrls_[i].clk = 2

\* C17: phase barrier.  The clock is incremented and epoch rows are
\* written only in the step that follows the parallel region, when every
\* controller has finished its tick; the final statistics are written only
\* between ClockTick calls; so no sink is written while a controller is
\* advancing, and every write is made by the calling thread.
C17_PhaseBarrier ==
    /\ [][(clk_' # clk_ \/ EpochRows(ctrls_') # EpochRows(ctrls_))
            => /\ TickReturns
               /\ par.todo = {}
               /\ par.running = {}]_vars
    /\ [][(\E i \in DOMAIN ctrls_ :
             ctrls_'[i].final_stats # ctrls_[i].final_stats)
            => par.pc = "idle" /\ par'.pc = "idle"]_vars
    /\ [][(par.pc = "advancing" /\ ~TickReturns)
            => /\ clk_' = clk_
               /\ EpochRows(ctrls_') = EpochRows(ctrls_)]_vars

\* C17 witness: an epoch row was written by a ClockTick in which a
\* controller completed a transaction.
C17_Witness ==
    /\ par.pc = "idle"
    /\ lastOp = "ClockTick"
    /\ ticks = 1
    /\ ctrls_[0].epoch_rows = 1
    /\ Len(completed) = 1

\* the elements of a sequence
Range(seq) == {seq[k] : k \in 1..Len(seq)}

====
